---- MODULE Spec2Model ----
(***************************************************************************)
(* PaperIQ (src/app.py, src/document_processor.py): the rule-based paper   *)
(* segmentation, the summary, the offline question answering, the text     *)
(* extractors and the Streamlit session that glues them together.          *)
(*                                                                         *)
(* Python strings are TLA+ strings: Len, SubSeq and \o act on them         *)
(* character by character.  SANY reads ASCII only, so every emoji of the   *)
(* source is written as its name between colons (":robot:").               *)
(***************************************************************************)
EXTENDS Integers, Sequences, FiniteSets, TLC

(***************************************************************************)
(* Python's string primitives                                              *)
(***************************************************************************)

NoneVal == "<None>"

CharAt(s, i) == SubSeq(s, i, i)

Min(a, b) == IF a < b THEN a ELSE b

\* s[:n]
Prefix(s, n) == SubSeq(s, 1, Min(n, Len(s)))

\* s[n:] for an index n counted from 0
Suffix(s, n) == SubSeq(s, n + 1, Len(s))

\* k in s
Contains(s, k) ==
    \E i \in 1..(Len(s) - Len(k) + 1) : SubSeq(s, i, i + Len(k) - 1) = k

\* s.find(k), counted from 0, for a k that occurs in s
Find(s, k) ==
    (CHOOSE i \in 1..(Len(s) - Len(k) + 1) :
        /\ SubSeq(s, i, i + Len(k) - 1) = k
        /\ \A j \in 1..(i - 1) : SubSeq(s, j, j + Len(k) - 1) # k) - 1

StartsWith(s, k) == Len(k) <= Len(s) /\ SubSeq(s, 1, Len(k)) = k

EndsWith(s, k) == Len(k) <= Len(s) /\ SubSeq(s, Len(s) - Len(k) + 1, Len(s)) = k

UpperToLower ==
    [c \in {"A", "B", "C", "D", "E", "F", "G", "H", "I", "J", "K", "L", "M",
            "N", "O", "P", "Q", "R", "S", "T", "U", "V", "W", "X", "Y", "Z"} |->
        CASE c = "A" -> "a" [] c = "B" -> "b" [] c = "C" -> "c" [] c = "D" -> "d"
          [] c = "E" -> "e" [] c = "F" -> "f" [] c = "G" -> "g" [] c = "H" -> "h"
          [] c = "I" -> "i" [] c = "J" -> "j" [] c = "K" -> "k" [] c = "L" -> "l"
          [] c = "M" -> "m" [] c = "N" -> "n" [] c = "O" -> "o" [] c = "P" -> "p"
          [] c = "Q" -> "q" [] c = "R" -> "r" [] c = "S" -> "s" [] c = "T" -> "t"
          [] c = "U" -> "u" [] c = "V" -> "v" [] c = "W" -> "w" [] c = "X" -> "x"
          [] c = "Y" -> "y" [] c = "Z" -> "z"]

LowerChar(c) == IF c \in DOMAIN UpperToLower THEN UpperToLower[c] ELSE c

RECURSIVE LowerRange(_, _, _)
\* the characters a..b of s in lower case (halved, to keep the evaluation shallow)
LowerRange(s, a, b) ==
    IF a > b THEN ""
    ELSE IF a = b THEN LowerChar(CharAt(s, a))
    ELSE LowerRange(s, a, (a + b) \div 2) \o LowerRange(s, (a + b) \div 2 + 1, b)

\* s.lower()
Lower(s) == LowerRange(s, 1, Len(s))

Whitespace == {" ", "\t", "\n", "\r", "\f"}

\* the first index >= from that holds no whitespace, Len(s) + 1 when none
FirstInk(s, from) ==
    CHOOSE i \in from..(Len(s) + 1) :
        /\ i = Len(s) + 1 \/ CharAt(s, i) \notin Whitespace
        /\ \A j \in from..(i - 1) : CharAt(s, j) \in Whitespace

\* the last index that holds no whitespace, 0 when none
LastInk(s) ==
    CHOOSE i \in 0..Len(s) :
        /\ i = 0 \/ CharAt(s, i) \notin Whitespace
        /\ \A j \in (i + 1)..Len(s) : CharAt(s, j) \in Whitespace

\* s.strip()
Strip(s) == SubSeq(s, FirstInk(s, 1), LastInk(s))

\* s.strip(chars)
RECURSIVE StripChars(_, _)
StripChars(s, chars) ==
    IF s = "" THEN ""
    ELSE IF CharAt(s, 1) \in chars THEN StripChars(Tail(s), chars)
    ELSE IF CharAt(s, Len(s)) \in chars THEN StripChars(SubSeq(s, 1, Len(s) - 1), chars)
    ELSE s

\* the indices of s that hold sep
SepPositions(s, sep) == {i \in 1..Len(s) : CharAt(s, i) = sep}

\* s.split('\n'): the pieces between the separators, empty ones included
Split(s, sep) ==
    LET P == SepPositions(s, sep)
        n == Cardinality(P)
        pos == [k \in 1..n |-> CHOOSE p \in P : Cardinality({j \in P : j <= p}) = k]
    IN  [k \in 1..(n + 1) |->
            SubSeq(s, IF k = 1 THEN 1 ELSE pos[k - 1] + 1,
                      IF k = n + 1 THEN Len(s) ELSE pos[k] - 1)]

\* the first index >= from that holds whitespace, Len(s) + 1 when none
NextSpace(s, from) ==
    CHOOSE i \in from..(Len(s) + 1) :
        /\ i = Len(s) + 1 \/ CharAt(s, i) \in Whitespace
        /\ \A j \in from..(i - 1) : CharAt(s, j) \notin Whitespace

RECURSIVE WordsFrom(_, _)
WordsFrom(s, from) ==
    LET b == FirstInk(s, from)
    IN  IF b = Len(s) + 1 THEN <<>>
        ELSE LET e == NextSpace(s, b)
             IN  <<SubSeq(s, b, e - 1)>> \o WordsFrom(s, e)

\* s.split(): the maximal runs of non-whitespace
Words(s) == WordsFrom(s, 1)

RECURSIVE JoinRange(_, _, _, _)
\* parts[a..b] joined by sep (halved, to keep the evaluation shallow)
JoinRange(parts, sep, a, b) ==
    IF a > b THEN ""
    ELSE IF a = b THEN parts[a]
    ELSE JoinRange(parts, sep, a, (a + b) \div 2) \o sep
         \o JoinRange(parts, sep, (a + b) \div 2 + 1, b)

\* sep.join(parts)
Join(parts, sep) == JoinRange(parts, sep, 1, Len(parts))

\* parts[:n]
Take(parts, n) == SubSeq(parts, 1, Min(n, Len(parts)))

\* [line.strip() for line in text.split('\n') if line.strip()]
StrippedLines(text) ==
    LET parts == Split(text, "\n")
        stripped == [k \in 1..Len(parts) |-> Strip(parts[k])]
    IN  SelectSeq(stripped, LAMBDA line : line # "")

(***************************************************************************)
(* analyze_paper_structure (src/app.py 50-100)                             *)
(***************************************************************************)

TITLE_MIN_LEN == 10
TITLE_MAX_LEN == 200
AUTHOR_LINES == 5
HEADER_MAX_LEN == 150
CONTENT_MIN_LEN == 20
SECTION_LINE_CAP == 50

\* the keys of section_patterns, in the dict's insertion order
SectionOrder ==
    <<"abstract", "introduction", "methodology", "results", "discussion",
      "conclusion", "references">>

SectionNames == {SectionOrder[k] : k \in 1..Len(SectionOrder)}

\* each regular expression is an alternation of literals
section_patterns ==
    [abstract |-> {"abstract", "summary"},
     introduction |-> {"introduction", "background", "motivation"},
     methodology |-> {"method", "methodology", "approach", "experiment",
                      "procedure", "materials"},
     results |-> {"result", "finding", "outcome", "data", "experiment"},
     discussion |-> {"discussion", "analysis", "interpretation"},
     conclusion |-> {"conclusion", "concluding", "summary"},
     references |-> {"reference", "bibliography", "citation"}]

AuthorIndicators == {"university", "institute", "department", "college", "@", "email"}

\* re.search(pattern, line_lower)
ReSearch(section, line_lower) ==
    \E alt \in section_patterns[section] : Contains(line_lower, alt)

\* the sections dict a call starts with
EmptySections ==
    [title |-> "", authors |-> "", abstract |-> <<>>, introduction |-> <<>>,
     methodology |-> <<>>, results |-> <<>>, discussion |-> <<>>,
     conclusion |-> <<>>, references |-> <<>>]

\* the locals a call starts with: sections and current_section = None
FreshLocals == [sections |-> EmptySections, current_section |-> NoneVal]

\* IsTitleLine counting the lines from 1
IsTitleLineFromOne(i, line) ==
    i = 1 /\ Len(line) > TITLE_MIN_LEN /\ Len(line) < TITLE_MAX_LEN

\* the title branch of the loop body
IsTitleLine(i, line) == i = 0 /\ Len(line) > TITLE_MIN_LEN /\ Len(line) < TITLE_MAX_LEN

\* IsAuthorsLine without the limit on the line index
IsAuthorsLineAnywhere(i, line, line_lower) ==
    /\ ~IsTitleLine(i, line)
    /\ \E indicator \in AuthorIndicators : Contains(line_lower, indicator)

\* the authors branch of the loop body, the elif of the title branch
IsAuthorsLine(i, line, line_lower) ==
    /\ ~IsTitleLine(i, line)
    /\ i < AUTHOR_LINES
    /\ \E indicator \in AuthorIndicators : Contains(line_lower, indicator)

\* HeaderMatches without the test of the line's length
HeaderMatchesAnyLength(section, line, line_lower) == ReSearch(section, line_lower)

\* a pattern sets the section when it matches and the line is short enough
HeaderMatches(section, line, line_lower) ==
    ReSearch(section, line_lower) /\ Len(line) < HEADER_MAX_LEN

\* DetectSection without the break: every match overwrites the one before
DetectSectionLast(line, line_lower, current_section) ==
    LET hits == {k \in 1..Len(SectionOrder) : HeaderMatches(SectionOrder[k], line, line_lower)}
    IN  IF hits # {}
        THEN SectionOrder[CHOOSE k \in hits : \A j \in hits : k >= j]
        ELSE current_section

\* the scan over section_patterns.items(): it breaks at the first match
DetectSection(line, line_lower, current_section) ==
    LET hits == {k \in 1..Len(SectionOrder) : HeaderMatches(SectionOrder[k], line, line_lower)}
    IN  IF hits # {}
        THEN SectionOrder[CHOOSE k \in hits : \A j \in hits : k <= j]
        ELSE current_section

\* AppendCapped with the cap tested one line too late
AppendCappedLate(buf, line) ==
    IF Len(buf) <= SECTION_LINE_CAP THEN Append(buf, line) ELSE buf

\* AppendCapped putting the new line first
AppendCappedFront(buf, line) ==
    IF Len(buf) < SECTION_LINE_CAP THEN <<line>> \o buf ELSE buf

\* the guarded append to the current section's buffer
AppendCapped(buf, line) ==
    IF Len(buf) < SECTION_LINE_CAP THEN Append(buf, line) ELSE buf

\* whether the line is content of the current section
IsContentLine(current_section, line) ==
    current_section # NoneVal /\ Len(line) > CONTENT_MIN_LEN

\* one pass of the loop body on lines[i] (i counted from 0)
ProcessLine(loc, i, line) ==
    LET line_lower == Lower(line)
        s1 == IF IsTitleLine(i, line) THEN [loc.sections EXCEPT !.title = line]
              ELSE IF IsAuthorsLine(i, line, line_lower)
              THEN [loc.sections EXCEPT !.authors = line]
              ELSE loc.sections
        cs == DetectSection(line, line_lower, loc.current_section)
        s2 == IF IsContentLine(cs, line)
              THEN [s1 EXCEPT ![cs] = AppendCapped(s1[cs], line)]
              ELSE s1
    IN  [sections |-> s2, current_section |-> cs]

\* the values the locals can take
IsLocals(loc) == loc.current_section \in SectionNames \cup {NoneVal}

RECURSIVE RunLines(_, _, _, _)
\* the loop over lines[a..b], entered with the locals loc.  The range is
\* halved and the first half's locals are looked at before the second half
\* starts from them, which keeps the evaluation shallow.
RunLines(loc, lines, a, b) ==
    IF a > b THEN loc
    ELSE IF a = b THEN ProcessLine(loc, a - 1, lines[a])
    ELSE LET half == RunLines(loc, lines, a, (a + b) \div 2)
         IN  IF IsLocals(half) THEN RunLines(half, lines, (a + b) \div 2 + 1, b)
             ELSE half

analyze_paper_structure(text) ==
    LET lines == StrippedLines(text)
    IN  RunLines(FreshLocals, lines, 1, Len(lines)).sections

(***************************************************************************)
(* generate_comprehensive_summary (src/app.py 102-156)                     *)
(***************************************************************************)

ABSTRACT_LINES == 5
ABSTRACT_CHARS == 200
BULLET_LINES == 3
BULLET_CHARS == 150
TITLE_SCAN_LINES == 3
SPARSE_PARTS == 3
OVERVIEW_CHARS == 400

\* the index of the first TRUE of a sequence of tests, 0 when there is none:
\* where a loop over the tested elements returns or breaks
FirstTrue(hits) ==
    IF \E k \in 1..Len(hits) : hits[k]
    THEN CHOOSE k \in 1..Len(hits) : hits[k] /\ \A j \in 1..(k - 1) : ~hits[j]
    ELSE 0

\* section_bullets, in the dict's insertion order
section_bullets ==
    <<[section |-> "introduction", description |-> "Research Focus"],
      [section |-> "methodology", description |-> "Method Used"],
      [section |-> "results", description |-> "Key Findings"],
      [section |-> "conclusion", description |-> "Conclusions"]>>

\* the title part: the detected title, else the first fitting line of lines[:3]
TitleParts(secs, text) ==
    IF secs.title # "" THEN <<"**:page: Title:** " \o secs.title>>
    ELSE LET head == Take(StrippedLines(text), TITLE_SCAN_LINES)
             k == FirstTrue([j \in 1..Len(head) |->
                      Len(head[j]) > TITLE_MIN_LEN /\ Len(head[j]) < TITLE_MAX_LEN])
         IN  IF k = 0 THEN <<>> ELSE <<"**:page: Title:** " \o head[k]>>

AuthorsParts(secs) ==
    IF secs.authors # "" THEN <<"**:people: Authors:** " \o secs.authors>> ELSE <<>>

AbstractPoint(secs) ==
    IF secs.abstract # <<>>
    THEN <<"**Abstract:** "
           \o Prefix(Join(Take(secs.abstract, ABSTRACT_LINES), " "), ABSTRACT_CHARS)
           \o "...">>
    ELSE <<>>

RECURSIVE BulletPoints(_, _)
BulletPoints(secs, k) ==
    IF k > Len(section_bullets) THEN <<>>
    ELSE LET b == section_bullets[k]
         IN  (IF secs[b.section] # <<>>
              THEN <<"**" \o b.description \o ":** "
                     \o Prefix(Join(Take(secs[b.section], BULLET_LINES), " "), BULLET_CHARS)
                     \o "...">>
              ELSE <<>>) \o BulletPoints(secs, k + 1)

key_points(secs) == AbstractPoint(secs) \o BulletPoints(secs, 1)

KeyPointParts(secs) ==
    LET kp == key_points(secs)
    IN  IF kp # <<>>
        THEN <<"## :mag: Key Points">> \o [k \in 1..Len(kp) |-> ":bullet: " \o kp[k]]
        ELSE <<>>

\* IsSparse with the threshold one part lower
IsSparseBelowTwo(summary_parts) == Len(summary_parts) < SPARSE_PARTS - 1

\* "very little structure found"
IsSparse(summary_parts) == Len(summary_parts) < SPARSE_PARTS

\* the first 400 characters as overview
Overview(text) ==
    IF Len(text) > OVERVIEW_CHARS THEN Prefix(text, OVERVIEW_CHARS) \o "..." ELSE text

OverviewHeader == "## :book: Document Content"

generate_comprehensive_summary(text) ==
    LET secs == analyze_paper_structure(text)
        structured == TitleParts(secs, text) \o AuthorsParts(secs) \o KeyPointParts(secs)
        summary_parts ==
            IF IsSparse(structured)
            THEN structured \o <<OverviewHeader, Overview(text)>>
            ELSE structured
    IN  Join(summary_parts, "\n\n")

(***************************************************************************)
(* answer_question_offline (src/app.py 158-259)                            *)
(***************************************************************************)

ABSTRACT_PREVIEW_LINES == 3
ABSTRACT_PREVIEW_CHARS == 100
TERM_LINE_MIN == 20
TERM_LINE_MAX == 300
TERM_LINE_CUT == 150
SHORT_QUESTION_WORDS == 4
KEYWORD_MIN_LEN == 3
KEYWORD_LINE_MIN == 30
KEYWORD_LINE_MAX == 200
KEYWORD_LINE_CUT == 120

\* Bold without the closing asterisks
BoldUnclosed(emoji, body) == "**" \o emoji \o " " \o body

\* every return value: bold, led by an emoji
Bold(emoji, body) == "**" \o emoji \o " " \o body \o "**"

AI_DEFINITION ==
    "AI refers to machines that can perform tasks typically requiring human intelligence."

\* simple_questions, in the dict's insertion order
simple_questions(secs) ==
    <<[q |-> "what is artificial intelligence", a |-> AI_DEFINITION],
      [q |-> "what is ai", a |-> AI_DEFINITION],
      [q |-> "what is machine learning",
       a |-> "Machine learning is a subset of AI that enables computers to learn without explicit programming."],
      [q |-> "what is deep learning",
       a |-> "Deep learning uses neural networks with multiple layers to analyze various data types."],
      [q |-> "what is neural network",
       a |-> "Neural networks are computing systems inspired by the human brain that recognize patterns."],
      [q |-> "what is data science",
       a |-> "Data science combines statistics, programming, and domain knowledge to extract insights from data."],
      [q |-> "what is computer vision",
       a |-> "Computer vision enables computers to interpret and understand visual information from the world."],
      [q |-> "what is natural language processing",
       a |-> "NLP enables computers to understand, interpret, and generate human language."],
      [q |-> "what is robotics",
       a |-> "Robotics involves designing and operating machines that can perform tasks automatically."],
      [q |-> "who are the authors",
       a |-> "Authors: " \o (IF secs.authors # "" THEN secs.authors
                             ELSE "Not specified in the paper")],
      [q |-> "what is the title",
       a |-> "Title: " \o (IF secs.title # "" THEN secs.title
                           ELSE "Not clearly specified")],
      [q |-> "what is the abstract",
       a |-> "The abstract summarizes the paper's main objectives, methods, results, and conclusions."]>>

\* CannedMatches comparing the whole question
CannedMatchesExactly(entry, question_lower) == question_lower = entry.q

\* simple_q in question_lower
CannedMatches(entry, question_lower) == Contains(question_lower, entry.q)

\* the index of the first canned question the question contains, 0 when none
CannedIndex(question_lower) ==
    LET table == simple_questions(EmptySections)
    IN  FirstTrue([k \in 1..Len(table) |-> CannedMatches(table[k], question_lower)])

\* the keyword groups of the if/elif chain, in its order
category_keywords ==
    <<[name |-> "title", words |-> {"title", "what is the paper about", "name of paper"}],
      [name |-> "author", words |-> {"author", "who wrote", "who is the author"}],
      [name |-> "abstract", words |-> {"abstract", "summary", "overview"}],
      [name |-> "methodology",
       words |-> {"method", "methodology", "approach", "how did they"}],
      [name |-> "results",
       words |-> {"result", "finding", "outcome", "what did they find"}],
      [name |-> "conclusion", words |-> {"conclusion", "conclude", "what was concluded"}],
      [name |-> "purpose", words |-> {"purpose", "goal", "objective", "why", "aim"}],
      [name |-> "define", words |-> {"what is", "what are", "define"}]>>

\* CategoryOf taking the last branch whose condition holds, as a run of
\* separate ifs that each overwrite the answer would
CategoryOfLast(question_lower) ==
    LET hits == {g \in 1..Len(category_keywords) :
                    \E word \in category_keywords[g].words : Contains(question_lower, word)}
    IN  IF hits = {} THEN NoneVal
        ELSE category_keywords[CHOOSE g \in hits : \A h \in hits : g >= h].name

\* the name of the first branch of the chain whose condition holds, else None
CategoryOf(question_lower) ==
    LET k == FirstTrue([g \in 1..Len(category_keywords) |->
                 \E word \in category_keywords[g].words : Contains(question_lower, word)])
    IN  IF k = 0 THEN NoneVal ELSE category_keywords[k].name

\* what the branch of a section-backed category returns
CategoryAnswer(name, secs) ==
    CASE name = "title" ->
           Bold(":page:", IF secs.title # "" THEN secs.title
                          ELSE "Title not explicitly stated")
      [] name = "author" ->
           Bold(":people:", IF secs.authors # "" THEN secs.authors
                            ELSE "Authors not specified")
      [] name = "abstract" ->
           IF secs.abstract # <<>>
           THEN Bold(":memo:",
                     Prefix(Join(Take(secs.abstract, ABSTRACT_PREVIEW_LINES), " "),
                            ABSTRACT_PREVIEW_CHARS) \o "...")
           ELSE "**:memo: Abstract section not found in this paper**"
      [] name = "methodology" ->
           IF secs.methodology # <<>>
           THEN "**:microscope: Research methodology details are in the methods section**"
           ELSE "**:microscope: Methodology section not explicitly identified**"
      [] name = "results" ->
           IF secs.results # <<>>
           THEN "**:chart: Key findings and results are detailed in the results section**"
           ELSE "**:chart: Results section not explicitly identified**"
      [] name = "conclusion" ->
           IF secs.conclusion # <<>>
           THEN "**:bulb: Conclusions summarize the research outcomes and implications**"
           ELSE "**:bulb: Conclusion section not explicitly identified**"
      [] name = "purpose" ->
           IF secs.introduction # <<>>
           THEN "**:target: Research objectives are outlined in the introduction section**"
           ELSE "**:target: Research purpose described in the introduction**"

\* the term after "what is" / "what are", "" when the question has neither
DefinedTerm(question_lower) ==
    IF Contains(question_lower, "what is")
    THEN StripChars(Suffix(question_lower, Find(question_lower, "what is") + 8), {"?", " "})
    ELSE IF Contains(question_lower, "what are")
    THEN StripChars(Suffix(question_lower, Find(question_lower, "what are") + 9), {"?", " "})
    ELSE ""

\* line[:n] + "..." when the line is longer than n
Cut(line, n) == IF Len(line) > n THEN Prefix(line, n) \o "..." ELSE line

\* the scan of the raw lines for the term
TermAnswer(term, text) ==
    LET lines == Split(text, "\n")
        k == FirstTrue([j \in 1..Len(lines) |->
                 /\ Contains(Lower(lines[j]), term)
                 /\ Len(lines[j]) > TERM_LINE_MIN
                 /\ Len(lines[j]) < TERM_LINE_MAX])
    IN  IF k # 0 THEN Bold(":books:", Cut(Strip(lines[k]), TERM_LINE_CUT))
        ELSE Bold(":question:", "Information about '" \o term \o "' not found in this paper")

GUIDANCE ==
    "**:robot: Please ask specific questions about this research paper's content, methods, or findings**"

NOT_FOUND ==
    "**:question: Specific answer not found in this paper. Try asking about the title, authors, methods, or results.**"

\* IsShortQuestion with the limit two words lower
IsShortQuestionBelowThree(question) == Len(Words(question)) <= SHORT_QUESTION_WORDS - 2

\* very short questions get the guidance
IsShortQuestion(question) == Len(Words(question)) <= SHORT_QUESTION_WORDS

\* [word for word in question_lower.split() if len(word) > 3]
Keywords(question_lower) ==
    SelectSeq(Words(question_lower), LAMBDA word : Len(word) > KEYWORD_MIN_LEN)

\* KeywordAnswer taking relevant_lines[-1]
KeywordAnswerLast(question_lower, text) ==
    LET keywords == Keywords(question_lower)
        lines == Split(text, "\n")
        fits == {j \in 1..Len(lines) :
                    /\ \E w \in 1..Len(keywords) : Contains(Lower(lines[j]), keywords[w])
                    /\ Len(Strip(lines[j])) > KEYWORD_LINE_MIN
                    /\ Len(Strip(lines[j])) < KEYWORD_LINE_MAX}
    IN  IF fits # {}
        THEN [step |-> "keyword",
              value |-> Bold(":mag:", Cut(Strip(lines[CHOOSE j \in fits : \A h \in fits : j >= h]),
                                          KEYWORD_LINE_CUT))]
        ELSE [step |-> "final", value |-> NOT_FOUND]

\* the keyword scan: relevant_lines[0], cut, else the final fallback
KeywordAnswer(question_lower, text) ==
    LET keywords == Keywords(question_lower)
        lines == Split(text, "\n")
        k == FirstTrue([j \in 1..Len(lines) |->
                 /\ \E w \in 1..Len(keywords) : Contains(Lower(lines[j]), keywords[w])
                 /\ Len(Strip(lines[j])) > KEYWORD_LINE_MIN
                 /\ Len(Strip(lines[j])) < KEYWORD_LINE_MAX])
    IN  IF k # 0
        THEN [step |-> "keyword", value |-> Bold(":mag:", Cut(Strip(lines[k]), KEYWORD_LINE_CUT))]
        ELSE [step |-> "final", value |-> NOT_FOUND]

\* the answer, with the step of the resolution order that produced it
answer_trace(question, text) ==
    LET question_lower == Strip(Lower(question))
        secs == analyze_paper_structure(text)
        c == CannedIndex(question_lower)
        cat == CategoryOf(question_lower)
        term == DefinedTerm(question_lower)
    IN  IF c # 0
        THEN [step |-> "canned", value |-> Bold(":robot:", simple_questions(secs)[c].a)]
        ELSE IF cat \notin {NoneVal, "define"}
        THEN [step |-> cat, value |-> CategoryAnswer(cat, secs)]
        ELSE IF cat = "define" /\ term # ""
        THEN [step |-> "define", value |-> TermAnswer(term, text)]
        ELSE IF IsShortQuestion(question)
        THEN [step |-> "short", value |-> GUIDANCE]
        ELSE KeywordAnswer(question_lower, text)

answer_question_offline(question, text) == answer_trace(question, text).value

(***************************************************************************)
(* The text extractors (src/app.py 25-48, src/document_processor.py 11-76) *)
(*                                                                         *)
(* A file is [ext, readable, wellformed, pages]: whether its bytes can be  *)
(* read, whether they parse (as PDF) or decode (as UTF-8), and the text    *)
(* they hold, page by page.  A call either returns a text or raises.       *)
(***************************************************************************)

Return(value) == [kind |-> "return", value |-> value]

Raise(exception) == [kind |-> "raise", value |-> exception]

\* app.py extract_text_from_pdf: any failure is caught and "" returned
extract_text_from_pdf(f) ==
    IF f.readable /\ f.wellformed THEN Return(Join(f.pages, "")) ELSE Return("")

\* str(file.read()) of the except branch: the first read left the stream at
\* its end, so the second one yields b'' and the result is its repr
ReprOfRest == "b''"

\* app.py extract_text_from_txt: the bare except re-reads the file
extract_text_from_txt(f) ==
    IF ~f.readable THEN Raise("OSError")
    ELSE IF f.wellformed THEN Return(Join(f.pages, ""))
    ELSE Return(ReprOfRest)

\* main's dispatch on uploaded_file.type
AppExtract(f) ==
    IF f.ext = "pdf" THEN extract_text_from_pdf(f) ELSE extract_text_from_txt(f)

\* the text one PDF library appends: every page's text and a newline
PagesWithNewlines(pages) == Join([k \in 1..Len(pages) |-> pages[k] \o "\n"], "")

\* DocumentProcessor.extract_text_from_pdf: PyPDF2, then pdfplumber, each in
\* its own try, both appending to the same text
dp_extract_text_from_pdf(f) ==
    IF f.readable /\ f.wellformed
    THEN Return(Strip(PagesWithNewlines(f.pages) \o PagesWithNewlines(f.pages)))
    ELSE Return("")

\* DocumentProcessor.extract_text_from_txt: open and read, no try
dp_extract_text_from_txt(f) ==
    IF ~f.readable THEN Raise("OSError")
    ELSE IF ~f.wellformed THEN Raise("UnicodeDecodeError")
    ELSE Return(Join(f.pages, ""))

\* DocumentProcessor.process_document, its raw_text
process_document(f) ==
    IF f.ext = "pdf" THEN dp_extract_text_from_pdf(f)
    ELSE IF f.ext = "txt" THEN dp_extract_text_from_txt(f)
    ELSE Raise("ValueError")

(***************************************************************************)
(* Inputs                                                                  *)
(***************************************************************************)

\* how many content lines beyond the cap the longest documents carry
ExtraLines == 2

\* how many entries the chat history may reach
MaxChat == 2

TitleLine == "Deep Learning Survey"

AuthorsLine == "Jane Roe, Department of Physics, jane@mit.edu"

Body(k) == "Body sentence number " \o ToString(k) \o " of this paper."

Bodies(a, b) == [k \in 1..(b - a + 1) |-> Body(a + k - 1)]

MethodLine == "We propose a new method for this task."

ShortLine == "Too short."

RECURSIVE Repeat(_, _)
Repeat(s, n) == IF n = 0 THEN "" ELSE s \o Repeat(s, n - 1)

\* 160 characters, "method" among them
LongMethodLine == Repeat("method and more ", 10)

TextOf(lines) == Join(lines, "\n")

LongBody == SECTION_LINE_CAP + ExtraLines

DocEmpty == ""

DocAbstract6 == TextOf(<<"Abstract">> \o Bodies(1, 6))

DocAbstractLong == TextOf(<<"Abstract">> \o Bodies(1, LongBody))

DocAbstractShortLine ==
    TextOf(<<"Abstract">> \o Bodies(1, 3) \o <<ShortLine>> \o Bodies(4, 6))

DocAbstractMethod ==
    TextOf(<<"Abstract">> \o Bodies(1, 3) \o <<MethodLine>> \o Bodies(4, 6))

DocAbstractLongLine ==
    TextOf(<<"Abstract">> \o Bodies(1, 3) \o <<LongMethodLine>> \o Bodies(4, 6))

DocIndented ==
    TextOf(<<"  Abstract  ", "", "   " \o Body(1) \o "  ", "\t">> \o Bodies(2, 6))

DocPaper ==
    TextOf(<<TitleLine, AuthorsLine, "Abstract", Body(1), "Introduction", Body(2),
             "Experiments", Body(3), "Summary", Body(4), "Conclusion", Body(5)>>)

DocPlain == TextOf(<<TitleLine>> \o Bodies(1, 3))

DocPlainAuthors == TextOf(<<TitleLine, AuthorsLine>> \o Bodies(1, 2))

DocPlainLong == TextOf(<<TitleLine>> \o Bodies(1, 12))

DocAffiliations ==
    TextOf(<<"Survey", "MIT University", "An Institute of Science", Body(1),
             "mail@college.edu", "Department of last resort">>)

DocConclusionLong == TextOf(<<TitleLine, "Conclusion">> \o Bodies(1, LongBody))

\* exactly 100 characters between two runs of blanks
DocHundred == "   " \o Repeat("0123456789", 10) \o "   "

AnalyzeTexts ==
    {DocEmpty, DocAbstract6, DocAbstractLong, DocAbstractShortLine, DocAbstractMethod,
     DocAbstractLongLine, DocIndented, DocPaper, DocPlain, DocAffiliations,
     DocConclusionLong}

PureTexts ==
    {DocEmpty, DocAbstract6, DocAbstractLong, DocAbstractMethod, DocAbstractLongLine,
     DocIndented, DocPaper, DocPlain, DocPlainAuthors, DocPlainLong, DocAffiliations}

Questions ==
    {"", "what is AI", "What is AI?", "Tell me what is aim of it",
     "what is artificial intelligence exactly", "What is the title", "what is the title",
     "  WHAT IS THE TITLE  ", "who are the authors", "who wrote this",
     "give me a summary", "which method", "any results here", "what was concluded",
     "why", "what is sentence number 2", "what is zebra", "what is ?",
     "define things now", "hello there friend", "paper sentence number",
     "please locate sentence number 3 for me",
     "does it mention zebras anywhere today",
     "which method gave this result", "what is the author name", "what are more",
     "define the gradient descent procedure please",
     "does it say more than once today"}

FileExts == {"pdf", "txt", "docx"}

FilePages == {<<>>, <<"">>, <<DocPlain>>, <<DocPaper>>, <<"Page one. ", "Page two.">>}

Files ==
    [ext : FileExts, readable : BOOLEAN, wellformed : BOOLEAN, pages : FilePages]

UploadTypes == {"pdf", "txt"}

SessionFiles ==
    {[ext |-> "pdf", readable |-> TRUE, wellformed |-> TRUE, pages |-> <<DocPaper>>],
     [ext |-> "pdf", readable |-> TRUE, wellformed |-> FALSE, pages |-> <<DocPaper>>],
     [ext |-> "txt", readable |-> TRUE, wellformed |-> TRUE, pages |-> <<DocPlain>>],
     [ext |-> "txt", readable |-> TRUE, wellformed |-> TRUE, pages |-> <<DocHundred>>],
     [ext |-> "txt", readable |-> TRUE, wellformed |-> TRUE, pages |-> <<"">>],
     [ext |-> "txt", readable |-> TRUE, wellformed |-> FALSE, pages |-> <<DocPlain>>],
     [ext |-> "txt", readable |-> FALSE, wellformed |-> TRUE, pages |-> <<DocPlain>>]}

SessionQuestions == {"", "What is the title", "what is sentence number 2"}

(***************************************************************************)
(* State                                                                   *)
(***************************************************************************)

VARIABLES
    processed_text,  \* st.session_state.processed_text
    summary,         \* st.session_state.summary
    chat_history,    \* st.session_state.chat_history
    sections,        \* st.session_state.sections
    ui,              \* what the last script run did and displayed
    text,            \* analyze_paper_structure's argument
    lines,           \* its local lines
    i,               \* the loop index
    loc,             \* its locals sections and current_section
    assigned,        \* the loop indices at which title and authors were assigned
    pc,              \* "idle", "loop" or "done" (returned loc.sections)
    first,           \* an earlier call and what it returned
    in_question,     \* the question given to a function
    in_text,         \* the text given to a function
    op,              \* the function applied to them
    out,             \* what it returned
    file,            \* the file given to an extractor
    outcome          \* what the extractor did with it

sessionVars == <<processed_text, summary, chat_history, sections, ui>>

analyzeVars == <<text, lines, i, loc, assigned, pc, first>>

pureVars == <<in_question, in_text, op, out>>

extractVars == <<file, outcome>>

vars == <<sessionVars, analyzeVars, pureVars, extractVars>>

\* {}
EmptyDict == [k \in {} |-> ""]

\* the session state of lines 16-23
SessionInit ==
    /\ processed_text = ""
    /\ summary = ""
    /\ chat_history = <<>>
    /\ sections = EmptyDict
    /\ ui = [event |-> "start", msg |-> "", text |-> NoneVal, analyzed |-> FALSE,
             shown |-> ""]

\* no call remembered yet
NoCall == [text |-> NoneVal, sections |-> EmptySections, other |-> FALSE]

\* nothing assigned yet in this call
NoAssignments == [title |-> <<>>, authors |-> <<>>]

\* no extractor called yet
NoOutcome == [by |-> "none", kind |-> "none", value |-> ""]

\* no file given
NoFile == [ext |-> "", readable |-> FALSE, wellformed |-> FALSE, pages |-> <<>>]

AnalyzeIdle ==
    /\ text = NoneVal
    /\ lines = <<>>
    /\ i = 0
    /\ loc = FreshLocals
    /\ assigned = NoAssignments
    /\ pc = "idle"
    /\ first = NoCall

PureIdle ==
    /\ in_question = NoneVal
    /\ in_text = NoneVal
    /\ op = "none"
    /\ out = NoneVal

ExtractIdle ==
    /\ file = NoFile
    /\ outcome = NoOutcome

(***************************************************************************)
(* analyze_paper_structure, one pass of its loop at a time                 *)
(***************************************************************************)

\* Call with current_section kept from the call before, as a module-level
\* variable would be
CallKeepingSection(t) ==
    /\ pc \in {"idle", "done"}
    /\ text' = t
    /\ lines' = StrippedLines(t)
    /\ i' = 0
    /\ loc' = [sections |-> EmptySections, current_section |-> loc.current_section]
    /\ assigned' = NoAssignments
    /\ pc' = "loop"
    /\ first' = IF first # NoCall /\ first.text # t THEN [first EXCEPT !.other = TRUE]
                ELSE first
    /\ UNCHANGED <<sessionVars, pureVars, extractVars>>

\* lines 81-87: which of the two assignments the pass on lines[i] executes
Assignments(done, j, line) ==
    IF IsTitleLine(j, line) THEN [done EXCEPT !.title = Append(@, j)]
    ELSE IF IsAuthorsLine(j, line, Lower(line)) THEN [done EXCEPT !.authors = Append(@, j)]
    ELSE done

\* lines 52-66: the call builds lines and fresh locals
Call(t) ==
    /\ pc \in {"idle", "done"}
    /\ text' = t
    /\ lines' = StrippedLines(t)
    /\ i' = 0
    /\ loc' = FreshLocals
    /\ assigned' = NoAssignments
    /\ pc' = "loop"
    /\ first' = IF first # NoCall /\ first.text # t THEN [first EXCEPT !.other = TRUE]
                ELSE first
    /\ UNCHANGED <<sessionVars, pureVars, extractVars>>

\* lines 77-98: one pass of the loop body
Step ==
    /\ pc = "loop"
    /\ i < Len(lines)
    /\ loc' = ProcessLine(loc, i, lines[i + 1])
    /\ assigned' = Assignments(assigned, i, lines[i + 1])
    /\ i' = i + 1
    /\ UNCHANGED <<text, lines, pc, first, sessionVars, pureVars, extractVars>>

\* line 100: return sections
Finish ==
    /\ pc = "loop"
    /\ i = Len(lines)
    /\ pc' = "done"
    /\ UNCHANGED <<text, lines, i, loc, assigned, first, sessionVars, pureVars,
                   extractVars>>

\* the caller keeps one returned mapping to compare later calls with; other
\* tells whether a call on another text has started since
Remember ==
    /\ pc = "done"
    /\ first = NoCall
    /\ first' = [text |-> text, sections |-> loc.sections, other |-> FALSE]
    /\ UNCHANGED <<text, lines, i, loc, assigned, pc, sessionVars, pureVars,
                   extractVars>>

AnalyzeNext ==
    \/ \E t \in AnalyzeTexts : Call(t)
    \/ Step
    \/ Finish
    \/ Remember

AnalyzeInit == SessionInit /\ AnalyzeIdle /\ PureIdle /\ ExtractIdle

SpecAnalyze == AnalyzeInit /\ [][AnalyzeNext]_vars

(***************************************************************************)
(* The summary and the answers as functions of their arguments             *)
(***************************************************************************)

PureInit ==
    /\ SessionInit /\ AnalyzeIdle /\ ExtractIdle
    /\ in_question \in Questions
    /\ in_text \in PureTexts
    /\ op = "none"
    /\ out = NoneVal

Summarize ==
    /\ op = "none"
    /\ op' = "summary"
    /\ out' = generate_comprehensive_summary(in_text)
    /\ UNCHANGED <<in_question, in_text, sessionVars, analyzeVars, extractVars>>

Answer ==
    /\ op = "none"
    /\ op' = "answer"
    /\ out' = answer_question_offline(in_question, in_text)
    /\ UNCHANGED <<in_question, in_text, sessionVars, analyzeVars, extractVars>>

PureNext == Summarize \/ Answer

SpecPure == PureInit /\ [][PureNext]_vars

(***************************************************************************)
(* The extractors                                                          *)
(***************************************************************************)

ExtractInit ==
    /\ SessionInit /\ AnalyzeIdle /\ PureIdle
    /\ file \in Files
    /\ outcome = NoOutcome

\* app.py: main's call of one of its two extractors
ExtractInApp ==
    /\ outcome = NoOutcome
    /\ file.ext \in UploadTypes
    /\ outcome' = [by |-> "app"] @@ AppExtract(file)
    /\ UNCHANGED <<file, sessionVars, analyzeVars, pureVars>>

\* document_processor.py: process_document
ProcessDocument ==
    /\ outcome = NoOutcome
    /\ outcome' = [by |-> "process_document"] @@ process_document(file)
    /\ UNCHANGED <<file, sessionVars, analyzeVars, pureVars>>

ExtractNext == ExtractInApp \/ ProcessDocument

SpecExtract == ExtractInit /\ [][ExtractNext]_vars

(***************************************************************************)
(* The Streamlit session: one action per script run                        *)
(***************************************************************************)

MIN_TEXT_LEN == 100

INSUFFICIENT == ":x: Could not extract sufficient text. Please try another file."

PROCESSED == ":check: Document processed successfully!"

UPLOAD_FIRST == ":warning: Please upload a research paper first."

\* IsSufficient measuring the text with its surrounding blanks
IsSufficientUnstripped(t) == t # "" /\ Len(t) > MIN_TEXT_LEN

\* line 291: the gate on the extracted text
IsSufficient(t) == t # "" /\ Len(Strip(t)) > MIN_TEXT_LEN

\* "Upload & Analyze" with a file in the uploader (lines 282-321)
Upload(f) ==
    /\ UNCHANGED <<analyzeVars, pureVars, extractVars>>
    /\ LET r == AppExtract(f)
       IN  IF r.kind = "raise"
           THEN /\ ui' = [event |-> "upload", msg |-> r.value, text |-> NoneVal,
                          analyzed |-> FALSE, shown |-> ""]
                /\ UNCHANGED <<processed_text, summary, chat_history, sections>>
           ELSE IF IsSufficient(r.value)
           THEN /\ processed_text' = r.value
                /\ sections' = analyze_paper_structure(r.value)
                /\ ui' = [event |-> "upload", msg |-> PROCESSED, text |-> r.value,
                          analyzed |-> TRUE, shown |-> ""]
                /\ UNCHANGED <<summary, chat_history>>
           ELSE /\ ui' = [event |-> "upload", msg |-> INSUFFICIENT, text |-> r.value,
                          analyzed |-> FALSE, shown |-> ""]
                /\ UNCHANGED <<processed_text, summary, chat_history, sections>>

\* "Paper Summary" (lines 323-334): the summary is generated when none is cached
ViewSummary ==
    /\ UNCHANGED <<analyzeVars, pureVars, extractVars>>
    /\ IF processed_text = ""
       THEN /\ ui' = [event |-> "summary", msg |-> UPLOAD_FIRST, text |-> NoneVal,
                      analyzed |-> FALSE, shown |-> ""]
            /\ UNCHANGED <<processed_text, summary, chat_history, sections>>
       ELSE /\ summary' = IF summary = ""
                          THEN generate_comprehensive_summary(processed_text)
                          ELSE summary
            /\ ui' = [event |-> "summary", msg |-> "", text |-> NoneVal,
                      analyzed |-> FALSE, shown |-> summary']
            /\ UNCHANGED <<processed_text, chat_history, sections>>

\* the Regenerate button (lines 337-340), and the rerun that shows the result
Regenerate ==
    /\ processed_text # ""
    /\ summary' = generate_comprehensive_summary(processed_text)
    /\ ui' = [event |-> "regenerate", msg |-> "", text |-> NoneVal,
              analyzed |-> FALSE, shown |-> summary']
    /\ UNCHANGED <<processed_text, chat_history, sections>>
    /\ UNCHANGED <<analyzeVars, pureVars, extractVars>>

\* Ask putting the new entry first
AskPrepending(question) ==
    /\ processed_text # ""
    /\ Len(chat_history) < MaxChat
    /\ IF question # ""
       THEN LET answer == answer_question_offline(question, processed_text)
            IN  /\ chat_history' = <<<<question, answer>>>> \o chat_history
                /\ ui' = [event |-> "ask", msg |-> "", text |-> NoneVal,
                          analyzed |-> FALSE, shown |-> answer]
       ELSE /\ UNCHANGED chat_history
            /\ ui' = [event |-> "ask", msg |-> "", text |-> NoneVal,
                      analyzed |-> FALSE, shown |-> ""]
    /\ UNCHANGED <<processed_text, summary, sections>>
    /\ UNCHANGED <<analyzeVars, pureVars, extractVars>>

\* the Ask button with the question typed (lines 358-374)
Ask(question) ==
    /\ processed_text # ""
    /\ Len(chat_history) < MaxChat
    /\ IF question # ""
       THEN LET answer == answer_question_offline(question, processed_text)
            IN  /\ chat_history' = Append(chat_history, <<question, answer>>)
                /\ ui' = [event |-> "ask", msg |-> "", text |-> NoneVal,
                          analyzed |-> FALSE, shown |-> answer]
       ELSE /\ UNCHANGED chat_history
            /\ ui' = [event |-> "ask", msg |-> "", text |-> NoneVal,
                      analyzed |-> FALSE, shown |-> ""]
    /\ UNCHANGED <<processed_text, summary, sections>>
    /\ UNCHANGED <<analyzeVars, pureVars, extractVars>>

\* the Clear button (lines 385-387), shown while the history is not empty
Clear ==
    /\ processed_text # ""
    /\ chat_history # <<>>
    /\ chat_history' = <<>>
    /\ ui' = [event |-> "clear", msg |-> "", text |-> NoneVal, analyzed |-> FALSE,
              shown |-> ""]
    /\ UNCHANGED <<processed_text, summary, sections>>
    /\ UNCHANGED <<analyzeVars, pureVars, extractVars>>

Next ==
    \/ \E f \in SessionFiles : Upload(f)
    \/ ViewSummary
    \/ Regenerate
    \/ \E question \in SessionQuestions : Ask(question)
    \/ Clear

Init == SessionInit /\ AnalyzeIdle /\ PureIdle /\ ExtractIdle

Spec == Init /\ [][Next]_vars

(***************************************************************************)
(* Properties                                                              *)
(***************************************************************************)

\* C1: at every point of a run of analyze_paper_structure, and so in the
\* mapping it returns, each of the seven section buffers holds at most 50
\* lines, however many lines fall under the section.
C1_BuffersCapped ==
    \A name \in SectionNames : Len(loc.sections[name]) <= SECTION_LINE_CAP

\* a returned mapping whose abstract is full although more than 50 lines of
\* more than 20 characters followed the heading
C1_Witness ==
    /\ pc = "done"
    /\ lines # <<>> /\ lines[1] = "Abstract"
    /\ Cardinality({k \in 2..Len(lines) : Len(lines[k]) > CONTENT_MIN_LEN})
          > SECTION_LINE_CAP
    /\ Len(loc.sections.abstract) = SECTION_LINE_CAP

\* no line matches any of the seven section patterns
NoHeaderMatch(t) ==
    LET ls == StrippedLines(t)
    IN  \A k \in 1..Len(ls) : \A name \in SectionNames : ~ReSearch(name, Lower(ls[k]))

\* C2: for a text in which no line matches a section pattern, the summary
\* contains the "Document Content" header followed by the first 400
\* characters of the raw text (the whole text when it is no longer).
C2_FallbackOverview ==
    (op = "summary" /\ NoHeaderMatch(in_text)) =>
        Contains(out, "## :book: Document Content\n\n" \o Prefix(in_text, OVERVIEW_CHARS))

\* the summary of a headerless text of more than 400 characters, cut
C2_Witness ==
    /\ op = "summary"
    /\ NoHeaderMatch(in_text)
    /\ Len(in_text) > OVERVIEW_CHARS
    /\ EndsWith(out, Prefix(in_text, OVERVIEW_CHARS) \o "...")

\* the lowercased question contains one of the two canned AI questions
AsksAboutAI(question) ==
    \/ Contains(Lower(question), "what is ai")
    \/ Contains(Lower(question), "what is artificial intelligence")

\* C3: a question whose lowercased form contains "what is ai" or "what is
\* artificial intelligence" gets exactly the canned AI definition, whatever
\* the document text is.
C3_CannedAI ==
    (op = "answer" /\ AsksAboutAI(in_question)) =>
        out = "**:robot: AI refers to machines that can perform tasks typically requiring human intelligence.**"

\* the canned answer given over a document that has lines holding "ai"
C3_Witness ==
    /\ op = "answer"
    /\ in_question = "What is AI?"
    /\ in_text = DocPaper
    /\ StartsWith(out, "**:robot: AI refers to machines")

\* the first non-empty trimmed line has more than 10 and fewer than 200 characters
FirstLineFits(t) ==
    LET ls == StrippedLines(t)
    IN  ls # <<>> /\ Len(ls[1]) > TITLE_MIN_LEN /\ Len(ls[1]) < TITLE_MAX_LEN

\* C4: for the question "What is the title" in any letter case and a document
\* whose first non-empty trimmed line L has more than 10 and fewer than 200
\* characters, the answer contains L.
C4_TitleEmbedded ==
    (op = "answer" /\ Lower(in_question) = "what is the title" /\ FirstLineFits(in_text)) =>
        Contains(out, StrippedLines(in_text)[1])

\* the title of a paper whose second line would fit as well
C4_Witness ==
    /\ op = "answer"
    /\ in_question = "What is the title"
    /\ in_text = DocPaper
    /\ out = "**:robot: Title: Deep Learning Survey**"

\* the question is made of exactly 3 whitespace-separated words
IsThreeWords(question) == Len(Words(question)) = 3

\* C5 as stated: every question of exactly 3 words gets the guidance string.
C5_Original ==
    (op = "answer" /\ IsThreeWords(in_question)) => out = GUIDANCE

\* no canned question, no category keyword and no "what is"/"what are" term
NoEarlierRule(question) ==
    LET question_lower == Strip(Lower(question))
    IN  /\ CannedIndex(question_lower) = 0
        /\ \/ CategoryOf(question_lower) = NoneVal
           \/ CategoryOf(question_lower) = "define" /\ DefinedTerm(question_lower) = ""

\* C5, amended: a question of exactly 3 words never reaches the keyword
\* search (its answer is neither a line found by it nor the final "Specific
\* answer not found" message), and it gets the guidance string when it holds
\* no canned question, no category keyword and no "what is"/"what are" term.
C5_ShortQuestion ==
    (op = "answer" /\ IsThreeWords(in_question)) =>
        /\ ~StartsWith(out, "**:mag:")
        /\ out # NOT_FOUND
        /\ NoEarlierRule(in_question) => out = GUIDANCE

\* three words, each a keyword the document's lines hold, and the guidance
C5_Witness ==
    /\ op = "answer"
    /\ in_question = "paper sentence number"
    /\ in_text = DocPlain
    /\ out = GUIDANCE

\* "Abstract", then more than 5 content lines
IsAbstractDoc == Len(lines) > 6 /\ lines[1] = "Abstract"

\* C6 as stated: the abstract buffer holds exactly the lines after
\* "Abstract", in order, cut off after the 50th.
C6_Original ==
    (pc = "done" /\ IsAbstractDoc) =>
        loc.sections.abstract = Take(Tail(lines), SECTION_LINE_CAP)

\* a line of fewer than 150 characters that holds a word of another section's
\* pattern and neither "abstract" nor "summary"
StartsOtherSection(line) ==
    /\ Len(line) < HEADER_MAX_LEN
    /\ ~ReSearch("abstract", Lower(line))
    /\ \E name \in SectionNames \ {"abstract"} : ReSearch(name, Lower(line))

\* C6, amended: when every content line, trimmed, is longer than 20
\* characters and none starts another section, the abstract buffer holds
\* exactly the trimmed content lines, in order, cut off after the 50th.
C6_AbstractRoundTrip ==
    (/\ pc = "done"
     /\ IsAbstractDoc
     /\ \A k \in 2..Len(lines) :
            Len(lines[k]) > CONTENT_MIN_LEN /\ ~StartsOtherSection(lines[k])) =>
        loc.sections.abstract = Take(Tail(lines), SECTION_LINE_CAP)

\* more than 50 such content lines, the buffer cut off
C6_Witness ==
    /\ pc = "done"
    /\ IsAbstractDoc
    /\ Len(lines) > SECTION_LINE_CAP + 1
    /\ \A k \in 2..Len(lines) :
            Len(lines[k]) > CONTENT_MIN_LEN /\ ~StartsOtherSection(lines[k])
    /\ loc.sections.abstract = SubSeq(lines, 2, SECTION_LINE_CAP + 1)

\* the extracted text is empty or has at most 100 characters once stripped
IsInsufficient(t) == t = "" \/ Len(Strip(t)) <= MIN_TEXT_LEN

\* C7: an upload whose extracted text is empty or, stripped, at most 100
\* characters long reports "Could not extract sufficient text", does not run
\* analyze_paper_structure and leaves processed_text and sections as they were.
C7_RejectedUpload ==
    [][(ui'.event = "upload" /\ ui'.text # NoneVal /\ IsInsufficient(ui'.text)) =>
          /\ ui'.msg = INSUFFICIENT
          /\ ~ui'.analyzed
          /\ processed_text' = processed_text
          /\ sections' = sections]_vars

\* a text of 100 characters between blanks rejected while a paper is loaded
C7_Witness ==
    /\ ui.event = "upload"
    /\ ui.text = DocHundred
    /\ ui.msg = INSUFFICIENT
    /\ processed_text = DocPaper
    /\ sections = analyze_paper_structure(DocPaper)

\* C8: a call on a text returns the mapping an earlier call on the same text
\* returned, whatever calls on other texts came in between.
C8_SameResult ==
    (pc = "done" /\ first # NoCall /\ first.text = text) => loc.sections = first.sections

\* a second call on a paper, after a call on another text
C8_Witness ==
    /\ pc = "done"
    /\ first.text = text
    /\ first.other
    /\ text = DocPaper
    /\ loc.sections = first.sections

Emojis ==
    {":robot:", ":page:", ":people:", ":memo:", ":microscope:", ":chart:", ":bulb:",
     ":target:", ":books:", ":question:", ":mag:"}

\* the section each category of question reads
SectionAsked ==
    [title |-> "title", author |-> "authors", abstract |-> "abstract",
     methodology |-> "methodology", results |-> "results", conclusion |-> "conclusion",
     purpose |-> "introduction"]

\* the explicit messages for a section that was not detected
MissingMessages ==
    {"**:page: Title not explicitly stated**",
     "**:people: Authors not specified**",
     "**:memo: Abstract section not found in this paper**",
     "**:microscope: Methodology section not explicitly identified**",
     "**:chart: Results section not explicitly identified**",
     "**:bulb: Conclusion section not explicitly identified**",
     "**:target: Research purpose described in the introduction**"}

\* C9: every answer is a string that starts with "**" and an emoji and ends
\* with "**"; a question about a section the document lacks gets one of the
\* explicit fallback messages.
C9_AlwaysFormatted ==
    op = "answer" =>
        /\ out # NoneVal
        /\ \E e \in Emojis : StartsWith(out, "**" \o e \o " ")
        /\ EndsWith(out, "**")
        /\ LET step == answer_trace(in_question, in_text).step
               secs == analyze_paper_structure(in_text)
           IN  (step \in DOMAIN SectionAsked /\ Len(secs[SectionAsked[step]]) = 0) =>
                   out \in MissingMessages

\* a question about the abstract of the empty text
C9_Witness ==
    /\ op = "answer"
    /\ in_text = ""
    /\ in_question = "give me a summary"
    /\ out = "**:memo: Abstract section not found in this paper**"

\* the file cannot be read, does not parse or decode, or is of no supported type
IsBadFile(f) == ~f.readable \/ ~f.wellformed \/ f.ext \notin {"pdf", "txt"}

\* C10: given an unreadable, corrupt or undecodable file, or one of an
\* unsupported type, extraction returns the empty string and does not raise.
C10_FailsGracefully ==
    (outcome # NoOutcome /\ IsBadFile(file)) =>
        outcome.kind = "return" /\ outcome.value = ""

LastAssigned(indices) ==
    IF indices = <<>> THEN "" ELSE lines[indices[Len(indices)] + 1]

MatchingPatterns(line) ==
    {k \in 1..Len(SectionOrder) : ReSearch(SectionOrder[k], Lower(line))}

\* the pass on lines[i] is over, and that line is shorter than 150
\* characters and matches more than one pattern
PassedAmbiguousLine ==
    /\ pc \in {"loop", "done"}
    /\ i > 0
    /\ Len(lines[i]) < HEADER_MAX_LEN
    /\ Cardinality(MatchingPatterns(lines[i])) > 1

\* C12 as stated: after a line shorter than 150 characters that matches more
\* than one pattern, the current section is the last matching pattern of the
\* fixed order.
C12_Original ==
    PassedAmbiguousLine =>
        \A k \in MatchingPatterns(lines[i]) :
            (\A j \in MatchingPatterns(lines[i]) : j <= k) =>
                loc.current_section = SectionOrder[k]

\* C12, amended: after a line shorter than 150 characters that matches more
\* than one pattern, the current section is the FIRST matching pattern of the
\* fixed order, so a heading containing "summary" selects abstract and one
\* containing only "experiment" selects methodology.
C12_FirstPatternWins ==
    PassedAmbiguousLine =>
        /\ \A k \in MatchingPatterns(lines[i]) :
               (\A j \in MatchingPatterns(lines[i]) : k <= j) =>
                   loc.current_section = SectionOrder[k]
        /\ Contains(Lower(lines[i]), "summary") => loc.current_section = "abstract"
        /\ Lower(lines[i]) = "experiments" => loc.current_section = "methodology"

\* the heading "Summary", which also matches the conclusion pattern, read
\* while another section was current
C12_Witness ==
    /\ pc = "loop"
    /\ i > 1
    /\ lines[i] = "Summary"
    /\ MatchingPatterns(lines[i]) = {1, 6}
    /\ loc.sections.methodology # <<>>
    /\ loc.current_section = "abstract"

\* the first pattern of the fixed order that the line matches, None when none
FirstPattern(line) ==
    IF MatchingPatterns(line) = {} THEN NoneVal
    ELSE SectionOrder[CHOOSE k \in MatchingPatterns(line) :
                          \A j \in MatchingPatterns(line) : k <= j]

\* what a pass of the loop does to the current section: a line of 150 or
\* more characters, or one that matches no pattern, leaves it as it was, any
\* other line sets it to the first pattern it matches
SectionAfterPass ==
    LET line == lines[i + 1]
    IN  loc'.current_section =
            IF Len(line) >= HEADER_MAX_LEN \/ FirstPattern(line) = NoneVal
            THEN loc.current_section
            ELSE FirstPattern(line)

\* the pass is on a line that matches no pattern, is longer than 20
\* characters and comes while a section is active
PassOnPlainContent ==
    /\ FirstPattern(lines[i + 1]) = NoneVal
    /\ Len(lines[i + 1]) > CONTENT_MIN_LEN
    /\ loc.current_section # NoneVal

\* C13 as stated: every pass sets the current section as described, and a
\* line that matches no pattern and is longer than 20 characters is appended
\* to the previously active section.
C13_Original ==
    [][(pc = "loop" /\ i' = i + 1) =>
          /\ SectionAfterPass
          /\ PassOnPlainContent =>
                 loc'.sections[loc.current_section] =
                     Append(loc.sections[loc.current_section], lines[i + 1])]_vars

\* C13, amended: every pass sets the current section as described, and a
\* line that matches no pattern and is longer than 20 characters is appended
\* to the previously active section unless that section's buffer already
\* holds 50 lines, in which case the line is dropped.
C13_SectionPerLine ==
    [][(pc = "loop" /\ i' = i + 1) =>
          /\ SectionAfterPass
          /\ PassOnPlainContent =>
                 loc'.sections[loc.current_section] =
                     IF Len(loc.sections[loc.current_section]) < SECTION_LINE_CAP
                     THEN Append(loc.sections[loc.current_section], lines[i + 1])
                     ELSE loc.sections[loc.current_section]]_vars

\* a line of more than 150 characters holding "method" was read under the
\* abstract: the section stayed and the line went to the abstract's buffer
C13_Witness ==
    /\ pc = "loop"
    /\ i > 1
    /\ Len(lines[i]) >= HEADER_MAX_LEN
    /\ FirstPattern(lines[i]) = "methodology"
    /\ loc.current_section = "abstract"
    /\ loc.sections.abstract[Len(loc.sections.abstract)] = lines[i]
    /\ loc.sections.methodology = <<>>

\* the seven keyword groups, in the order of the claim
GroupOrder ==
    <<"title", "author", "abstract", "methodology", "results", "conclusion", "purpose">>

\* the keywords of a group
GroupWords(name) ==
    category_keywords[CHOOSE g \in 1..Len(category_keywords) :
                          category_keywords[g].name = name].words

\* the position in GroupOrder of the first group with a keyword occurring
\* in the lowercased question, 0 when no group has one
FirstGroup(question) ==
    LET hits == {g \in 1..Len(GroupOrder) :
                    \E word \in GroupWords(GroupOrder[g]) : Contains(Lower(question), word)}
    IN  IF hits = {} THEN 0 ELSE CHOOSE g \in hits : \A h \in hits : g <= h

\* the message of a group whose section is populated
FoundMessage(name, secs) ==
    CASE name = "title" -> "**:page: " \o secs.title \o "**"
      [] name = "author" -> "**:people: " \o secs.authors \o "**"
      [] name = "abstract" ->
           "**:memo: " \o Prefix(Join(Take(secs.abstract, 3), " "), 100) \o "...**"
      [] name = "methodology" ->
           "**:microscope: Research methodology details are in the methods section**"
      [] name = "results" ->
           "**:chart: Key findings and results are detailed in the results section**"
      [] name = "conclusion" ->
           "**:bulb: Conclusions summarize the research outcomes and implications**"
      [] name = "purpose" ->
           "**:target: Research objectives are outlined in the introduction section**"

\* the "not found" variant of a group
MissingMessage(name) ==
    CASE name = "title" -> "**:page: Title not explicitly stated**"
      [] name = "author" -> "**:people: Authors not specified**"
      [] name = "abstract" -> "**:memo: Abstract section not found in this paper**"
      [] name = "methodology" ->
           "**:microscope: Methodology section not explicitly identified**"
      [] name = "results" -> "**:chart: Results section not explicitly identified**"
      [] name = "conclusion" -> "**:bulb: Conclusion section not explicitly identified**"
      [] name = "purpose" -> "**:target: Research purpose described in the introduction**"

\* C14: when the question contains no canned question and some keyword
\* group has a keyword occurring in the lowercased question, the answer is
\* the one of the first such group in the order title, author, abstract,
\* methodology, results, conclusion, purpose, whatever later groups and
\* later steps would give: its section-derived message when its section is
\* populated and its "not found" variant when the section is empty.
C14_FirstGroupDecides ==
    (/\ op = "answer"
     /\ CannedIndex(Lower(in_question)) = 0
     /\ FirstGroup(in_question) # 0) =>
        LET name == GroupOrder[FirstGroup(in_question)]
            secs == analyze_paper_structure(in_text)
        IN  out = IF Len(secs[SectionAsked[name]]) > 0 THEN FoundMessage(name, secs)
                  ELSE MissingMessage(name)

\* a question holding keywords of the methodology and of the results group
\* over a paper with a methodology section: the methodology group answers
C14_Witness ==
    /\ op = "answer"
    /\ in_question = "which method gave this result"
    /\ in_text = DocPaper
    /\ \E word \in GroupWords("results") : Contains(Lower(in_question), word)
    /\ analyze_paper_structure(in_text).methodology # <<>>
    /\ out = "**:microscope: Research methodology details are in the methods section**"

\* the lowercased question contains "what is", "what are" or "define"
AsksDefinition(question) ==
    \E phrase \in {"what is", "what are", "define"} : Contains(Lower(question), phrase)

\* the first raw line that contains the term and has more than 20 and fewer
\* than 300 characters, cut to 150 characters, None when there is no such line
FirstTermLine(term, t) ==
    LET raw == Split(t, "\n")
        fits == {j \in 1..Len(raw) :
                    Contains(Lower(raw[j]), term) /\ Len(raw[j]) > 20 /\ Len(raw[j]) < 300}
    IN  IF fits = {} THEN NoneVal
        ELSE LET line == Strip(raw[CHOOSE j \in fits : \A h \in fits : j <= h])
             IN  IF Len(line) > 150 THEN Prefix(line, 150) \o "..." ELSE line

\* C15: a question that contains "what is", "what are" or "define", no
\* canned question and no category keyword is answered by the term search:
\* with the first raw line holding the term, of more than 20 and fewer than
\* 300 characters and cut to 150, or with "Information about '<term>' not
\* found"; never with the short-question prompt or by the keyword fallback.
C15_TermSearch ==
    (/\ op = "answer"
     /\ AsksDefinition(in_question)
     /\ CannedIndex(Lower(in_question)) = 0
     /\ FirstGroup(in_question) = 0) =>
        /\ out # GUIDANCE
        /\ out # NOT_FOUND
        /\ ~StartsWith(out, "**:mag: ")
        /\ \/ /\ StartsWith(out, "**:books: ")
              /\ \E j \in 1..Len(Split(in_text, "\n")) :
                     Contains(out, Prefix(Strip(Split(in_text, "\n")[j]), 150))
           \/ /\ StartsWith(out, "**:question: Information about '")
              /\ EndsWith(out, "' not found in this paper**")

\* the question has more than 4 words and no earlier rule answers it: it
\* holds no canned question, no keyword of the seven groups and no term
\* after "what is" / "what are"
ReachesKeywordSearch(question) ==
    /\ Len(Words(question)) > 4
    /\ CannedIndex(Lower(question)) = 0
    /\ FirstGroup(question) = 0
    /\ DefinedTerm(Strip(Lower(question))) = ""

\* the positions of the raw lines that contain a question word longer than
\* 3 characters and, trimmed, have more than 30 and fewer than 200 characters
RelevantLines(question, t) ==
    LET words == Words(Lower(question))
        raw == Split(t, "\n")
    IN  {j \in 1..Len(raw) :
            /\ \E w \in 1..Len(words) :
                   Len(words[w]) > 3 /\ Contains(Lower(raw[j]), words[w])
            /\ Len(Strip(raw[j])) > 30
            /\ Len(Strip(raw[j])) < 200}

\* C16: for a question of more than 4 words that no earlier rule answers,
\* the answer is the first line in document order that contains a question
\* word longer than 3 characters and, trimmed, has more than 30 and fewer
\* than 200 characters, cut to 120 characters plus "..." when longer; it is
\* the "Specific answer not found" message exactly when there is no such line.
C16_FirstRelevantLine ==
    (op = "answer" /\ ReachesKeywordSearch(in_question)) =>
        LET fits == RelevantLines(in_question, in_text)
            raw == Split(in_text, "\n")
        IN  /\ (out = NOT_FOUND) <=> (fits = {})
            /\ fits # {} =>
                   LET line == Strip(raw[CHOOSE j \in fits : \A h \in fits : j <= h])
                   IN  out = "**:mag: "
                             \o (IF Len(line) > 120 THEN Prefix(line, 120) \o "..." ELSE line)
                             \o "**"

\* three lines hold a keyword of the question and the first of them is the
\* answer
C16_Witness ==
    /\ op = "answer"
    /\ in_question = "please locate sentence number 3 for me"
    /\ in_text = DocPlain
    /\ Cardinality(RelevantLines(in_question, in_text)) = 3
    /\ out = "**:mag: Body sentence number 1 of this paper.**"

\* C17: whenever the Paper Summary page shows a summary, after any sequence
\* of uploads, summary views, regenerations, questions and clears, it is
\* generate_comprehensive_summary of the session's current processed_text;
\* a summary cached for an earlier document is not shown for a later one.
C17_ShownIsCurrent ==
    (ui.event \in {"summary", "regenerate"} /\ processed_text # "") =>
        ui.shown = generate_comprehensive_summary(processed_text)

\* the run was Ask with a non-empty question: it displayed an answer
AskedSomething == ui'.event = "ask" /\ ui'.shown # ""

\* C18: the chat history changes only through Ask with a non-empty question,
\* which appends exactly one entry (question, answer_question_offline of the
\* question and the current processed_text) at the end, and through Clear,
\* which empties it; Ask with an empty question, uploads, summary views and
\* regenerations leave it unchanged.
C18_ChatHistoryFrame ==
    [][/\ AskedSomething =>
             \E question \in SessionQuestions \ {""} :
                 /\ chat_history' =
                        Append(chat_history,
                               <<question, answer_question_offline(question, processed_text)>>)
                 /\ ui'.shown = answer_question_offline(question, processed_text)
       /\ ui'.event = "clear" => chat_history' = <<>>
       /\ (~AskedSomething /\ ui'.event # "clear") => chat_history' = chat_history]_vars

\* two different questions asked, in that order, about two different
\* documents: an upload came in between and left the first entry in place
C18_Witness ==
    /\ ui.event = "ask"
    /\ Len(chat_history) = 2
    /\ chat_history[1][1] = "What is the title"
    /\ chat_history[2][1] = "what is sentence number 2"
    /\ chat_history[1][2] = answer_question_offline(chat_history[1][1], DocPaper)
    /\ chat_history[2][2] = answer_question_offline(chat_history[2][1], DocPlain)
    /\ processed_text = DocPlain
    /\ ui.shown = chat_history[2][2]

====
